---- MODULE Spec2Model ----
(***************************************************************************)
(* A state-machine model of the CHIP-8 emulator of src/main.rs: the host   *)
(* application (App::update, App::subscription), the loader                *)
(* (Emulator::new), the instruction cycle (Emulator::tick) and the sprite  *)
(* blit (Screen::draw_sprite, Screen::clear).                              *)
(*                                                                         *)
(* A u64 framebuffer row is represented by the set of the indices of its   *)
(* set bits (bit 0 = least significant = column 63, as Program::draw reads *)
(* it); u8 and u16 values are naturals kept in range by explicit           *)
(* reductions.  A Rust panic ends the process: it is recorded in           *)
(* `panicked`, after which no message is processed any more.               *)
(***************************************************************************)
EXTENDS Integers, Sequences, FiniteSets, TLC

VARIABLES emulator, logs, dialogs, panicked, overflow_checks, last

vars == <<emulator, logs, dialogs, panicked, overflow_checks, last>>

(***************************************************************************)
(* Bounds of the model.                                                    *)
(***************************************************************************)
MaxLogs == 2
MaxDialogs == 1
MaxStack == 17

(***************************************************************************)
(* Program constants.                                                      *)
(***************************************************************************)
MemSize == 4096
ProgStart == 512
FontStart == 80
Rows == 32
Cols == 64
U8 == 256
U16 == 65536

\* Option<T>: None is the empty sequence, Some(v) the sequence of v alone
None == << >>
Some(v) == << v >>
is_some(o) == Len(o) > 0
unwrap(o) == o[1]

FONT ==
  << 240, 144, 144, 144, 240,
      32,  96,  32,  32, 112,
     240,  16, 240, 128, 240,
     240,  16, 240,  16, 240,
     144, 144, 240,  16,  16,
     240, 128, 240,  16, 240,
     240, 128, 240, 144, 240,
     240,  16,  32,  64,  64,
     240, 144, 240, 144, 240,
     240, 144, 240,  16, 240,
     240, 144, 240, 144, 144,
     224, 144, 224, 144, 224,
     240, 128, 128, 128, 240,
     224, 144, 144, 144, 224,
     240, 128, 240, 128, 240,
     240, 128, 240, 128, 128 >>

(***************************************************************************)
(* Integer helpers: bitwise operations on u8, and u64 values as bit sets.  *)
(***************************************************************************)
Min(a, b) == IF a < b THEN a ELSE b

Pow2(k) == IF k = 0 THEN 1 ELSE
           IF k = 1 THEN 2 ELSE
           IF k = 2 THEN 4 ELSE
           IF k = 3 THEN 8 ELSE
           IF k = 4 THEN 16 ELSE
           IF k = 5 THEN 32 ELSE
           IF k = 6 THEN 64 ELSE 128

Bit(v, k) == (v \div Pow2(k)) % 2

RECURSIVE FromBits(_, _)
FromBits(f, k) == IF k = 8 THEN 0 ELSE f[k] * Pow2(k) + FromBits(f, k + 1)

bitor(a, b)  == FromBits([k \in 0..7 |-> IF Bit(a, k) + Bit(b, k) > 0 THEN 1 ELSE 0], 0)
bitand(a, b) == FromBits([k \in 0..7 |-> Bit(a, k) * Bit(b, k)], 0)
bitxor(a, b) == FromBits([k \in 0..7 |-> (Bit(a, k) + Bit(b, k)) % 2], 0)

\* `b as u64` / `b.into()`: the bits of a byte, as a 64-bit value
as_u64(b) == {k \in 0..7 : Bit(b, k) = 1}
\* u64 << k and u64 >> k for 0 <= k < 64: bits shifted out are lost
shl64(s, k) == {i + k : i \in s} \cap (0..(Cols - 1))
shr64(s, k) == {i - k : i \in s} \cap (0..(Cols - 1))
and64(s, t) == s \cap t
\* (variant: the sprite row is OR-ed into the framebuffer row)
or64(s, t) == s \cup t
xor64(s, t) == (s \ t) \cup (t \ s)

\* [lo, hi) of a sequence-like function on naturals, as a 1-based sequence
Slice(f, lo, hi) == [k \in 1..(hi - lo) |-> f[lo + k - 1]]

(***************************************************************************)
(* Emulator::new                                                           *)
(***************************************************************************)
\* (variant: a range ending at the end of the array is rejected)
get_mut_ok_strict(start, end) == start <= end /\ end < MemSize

\* memory.get_mut(start..end): is the range inside the array?
get_mut_ok(start, end) == start <= end /\ end <= MemSize

\* dst[start..start+len(src)].copy_from_slice(src)
copy_from_slice(dst, start, src) ==
  [a \in DOMAIN dst |->
     IF a >= start /\ a < start + Len(src) THEN src[a - start + 1] ELSE dst[a]]

Screen_default == [r \in 0..(Rows - 1) |-> {}]

\* (variant: the font table is copied to the bottom of memory)
Emulator_new_font_at_zero(rom) ==
  IF ~get_mut_ok(ProgStart, ProgStart + Len(rom)) THEN None
  ELSE
    LET memory0 == [a \in 0..(MemSize - 1) |-> 0]
        memory1 == copy_from_slice(memory0, ProgStart, rom)
        memory2 == copy_from_slice(memory1, 0, FONT)
    IN  Some([ memory |-> memory2,
               screen |-> Screen_default,
               pc     |-> ProgStart,
               reg_i  |-> 0,
               reg_v  |-> [k \in 0..15 |-> 0],
               stack  |-> << >> ])

Emulator_new(rom) ==
  IF ~get_mut_ok(ProgStart, ProgStart + Len(rom)) THEN None
  ELSE
    LET memory0 == [a \in 0..(MemSize - 1) |-> 0]
        memory1 == copy_from_slice(memory0, ProgStart, rom)
        memory2 == copy_from_slice(memory1, FontStart, FONT)
    IN  Some([ memory |-> memory2,
               screen |-> Screen_default,
               pc     |-> ProgStart,
               reg_i  |-> 0,
               reg_v  |-> [k \in 0..15 |-> 0],
               stack  |-> << >> ])

(***************************************************************************)
(* Formatting of the diagnostics ({:x?} of a u8, {} of a usize).           *)
(***************************************************************************)
HexDigits == <<"0", "1", "2", "3", "4", "5", "6", "7",
               "8", "9", "a", "b", "c", "d", "e", "f">>

fmt_hex(v) == IF v < 16 THEN HexDigits[v + 1]
              ELSE HexDigits[(v \div 16) + 1] \o HexDigits[(v % 16) + 1]

RECURSIVE fmt_dec(_)
fmt_dec(v) == IF v < 10 THEN HexDigits[v + 1]
              ELSE fmt_dec(v \div 10) \o HexDigits[(v % 10) + 1]

WarnEmptyStack == "Warning: attempted to return while stack is empty."
LogUnknown(first, nn) ==
  "Unknown instruction " \o fmt_hex(first) \o fmt_hex(nn) \o "; skipping"
LogDialogClosed == "Dialog closed"
LogLoaded(filename) == "ROM loaded: " \o filename
LogOdd(rom_len) ==
  "Warning: ROM size " \o fmt_dec(rom_len) \o " is odd. This may cause undefined behaviors."
LogTooBig(filename) == "Error when loading " \o filename \o ": ROM size too big"

(***************************************************************************)
(* Screen::clear and Screen::draw_sprite                                   *)
(***************************************************************************)
Screen_clear == [r \in 0..(Rows - 1) |-> {}]

\* The shift amount a build without overflow checks uses for `v >> k` on a
\* u64 with k: i8: k reduced to the low 6 bits (-1 becomes 63, -7 becomes 57).
wrapping_amount(k) == k % Cols

\* The value `shifted` / `draw_target` of one sprite byte in the arm of
\* `match bitshift_count` that is taken.
draw_shifted(b, bitshift_count) ==
  IF bitshift_count > 0 THEN shl64(as_u64(b), bitshift_count)
  ELSE IF bitshift_count < 0 THEN shr64(as_u64(b), wrapping_amount(bitshift_count))
  ELSE as_u64(b)

\* The body of `for row in 0..rows`, from iteration `row` on.
RECURSIVE draw_rows(_, _, _, _, _, _)
draw_rows(content, vf_ret, shifted, y, row, rows) ==
  IF row >= rows THEN [content |-> content, vf_ret |-> vf_ret, panic |-> FALSE]
  ELSE LET target == content[y + row]
           hit    == and64(target, shifted[row + 1]) # {}
       IN  draw_rows([content EXCEPT ![y + row] = xor64(target, shifted[row + 1])],
                     vf_ret \/ hit, shifted, y, row + 1, rows)

\* (variant: the rows past the bottom wrap around to the top)
RECURSIVE draw_rows_wrap(_, _, _, _, _, _)
draw_rows_wrap(content, vf_ret, shifted, y, row, rows) ==
  IF row >= rows THEN [content |-> content, vf_ret |-> vf_ret, panic |-> FALSE]
  ELSE LET at     == (y + row) % Rows
           target == content[at]
           hit    == and64(target, shifted[row + 1]) # {}
       IN  draw_rows_wrap([content EXCEPT ![at] = xor64(target, shifted[row + 1])],
                          vf_ret \/ hit, shifted, y, row + 1, rows)

draw_sprite_wrap(content, sprite, x, y, checks) ==
  LET bitshift_count == 56 - x
      rows == Len(sprite)
  IN  IF bitshift_count < 0 /\ rows > 0 /\ checks
      THEN [content |-> content, vf_ret |-> FALSE, panic |-> TRUE]
      ELSE draw_rows_wrap(content, FALSE,
                          [row \in 1..rows |-> draw_shifted(sprite[row], bitshift_count)],
                          y, 0, rows)

\* draw_sprite(sprite, x, y) on the rows `content`; `checks` tells whether the
\* build panics on a shift amount out of range (debug) or masks it (release).
draw_sprite(content, sprite, x, y, checks) ==
  LET bitshift_count == 56 - x
      rows == Min(Len(sprite), Rows - y)
  IN  IF bitshift_count < 0 /\ rows > 0 /\ checks
      THEN [content |-> content, vf_ret |-> FALSE, panic |-> TRUE]
      ELSE draw_rows(content, FALSE,
                     [row \in 1..rows |-> draw_shifted(sprite[row], bitshift_count)],
                     y, 0, rows)

(***************************************************************************)
(* Emulator::tick.  Every arm maps the emulator (PC already advanced) to   *)
(* a record: the emulator after the arm (at the point of the panic, if it  *)
(* panics), the diagnostics pushed, and whether the arm panicked.          *)
(***************************************************************************)
Done(e)        == [emulator |-> e, log |-> << >>, panic |-> FALSE]
Logged(e, msg) == [emulator |-> e, log |-> <<msg>>, panic |-> FALSE]
Panic(e)       == [emulator |-> e, log |-> << >>, panic |-> TRUE]

\* `let [first, nn, ..] = &self.memory[pc..] else { unreachable!() }` succeeds
fetch_ok(e) == e.pc + 1 < MemSize

\* (variant: NNN keeps the opcode nibble, the whole 16-bit word)
decode_unmasked(e) ==
  LET first == e.memory[e.pc]
      nn    == e.memory[e.pc + 1]
  IN  [ first |-> first,
        nn    |-> nn,
        opcat |-> first \div 16,
        x     |-> first % 16,
        y     |-> nn \div 16,
        n     |-> nn % 16,
        nnn   |-> (first * 256 + nn) % U16 ]

decode(e) ==
  LET first == e.memory[e.pc]
      nn    == e.memory[e.pc + 1]
  IN  [ first |-> first,
        nn    |-> nn,
        opcat |-> first \div 16,
        x     |-> first % 16,
        y     |-> nn \div 16,
        n     |-> nn % 16,
        nnn   |-> ((first % 16) * 256 + nn) % U16 ]

advance(e) == [e EXCEPT !.pc = (e.pc + 2) % U16]
skip_if(e, cond) == IF cond THEN advance(e) ELSE e

\* (variant: only the first row is cleared)
op_00E0_first_row(e) == Done([e EXCEPT !.screen[0] = {}])

op_00E0(e) == Done([e EXCEPT !.screen = Screen_clear])

\* (variant: the return address is taken from the front of the list)
op_00EE_pop_front(e) ==
  IF Len(e.stack) > 0
  THEN Done([e EXCEPT !.pc = Head(e.stack), !.stack = Tail(e.stack)])
  ELSE Logged(e, WarnEmptyStack)

\* (variant: a return with an empty stack jumps to the default address 0)
op_00EE_or_default(e) ==
  IF Len(e.stack) > 0
  THEN Done([e EXCEPT !.pc = e.stack[Len(e.stack)],
                      !.stack = SubSeq(e.stack, 1, Len(e.stack) - 1)])
  ELSE Logged([e EXCEPT !.pc = 0], WarnEmptyStack)

op_00EE(e) ==
  IF Len(e.stack) > 0
  THEN Done([e EXCEPT !.pc = e.stack[Len(e.stack)],
                      !.stack = SubSeq(e.stack, 1, Len(e.stack) - 1)])
  ELSE Logged(e, WarnEmptyStack)

op_1NNN(e, nnn) == Done([e EXCEPT !.pc = nnn])

op_2NNN(e, nnn) == Done([e EXCEPT !.stack = Append(e.stack, e.pc), !.pc = nnn])

op_3XNN(e, x, nn) == Done(skip_if(e, e.reg_v[x] = nn))
\* (variant: 4XNN skips on equality, like 3XNN)
op_4XNN_eq(e, x, nn) == Done(skip_if(e, e.reg_v[x] = nn))

op_4XNN(e, x, nn) == Done(skip_if(e, e.reg_v[x] # nn))
op_5XY0(e, x, y)  == Done(skip_if(e, e.reg_v[x] = e.reg_v[y]))
op_9XY0(e, x, y)  == Done(skip_if(e, e.reg_v[x] # e.reg_v[y]))

op_6XNN(e, x, nn) == Done([e EXCEPT !.reg_v[x] = nn])
op_7XNN(e, x, nn) == Done([e EXCEPT !.reg_v[x] = (e.reg_v[x] + nn) % U8])
op_8XY0(e, x, y)  == Done([e EXCEPT !.reg_v[x] = e.reg_v[y]])
op_8XY1(e, x, y)  == Done([e EXCEPT !.reg_v[x] = bitor(e.reg_v[x], e.reg_v[y])])
op_8XY2(e, x, y)  == Done([e EXCEPT !.reg_v[x] = bitand(e.reg_v[x], e.reg_v[y])])
op_8XY3(e, x, y)  == Done([e EXCEPT !.reg_v[x] = bitxor(e.reg_v[x], e.reg_v[y])])

\* (variant: the flag is written first, the result last)
flag_then_set(e, x, x_new, vf) ==
  [e EXCEPT !.reg_v = [[e.reg_v EXCEPT ![15] = vf] EXCEPT ![x] = x_new]]

\* the two writes of a flag instruction, in the order of the code:
\* reg_v[x] = x_new; reg_v[0xF] = vf
set_then_flag(e, x, x_new, vf) ==
  [e EXCEPT !.reg_v = [[e.reg_v EXCEPT ![x] = x_new] EXCEPT ![15] = vf]]

\* (variant: the carry is set only when the sum exceeds 256)
op_8XY4_carry_above(e, x, y) ==
  LET sum == e.reg_v[x] + e.reg_v[y]
  IN  Done(set_then_flag(e, x, sum % U8, IF sum > U8 THEN 1 ELSE 0))

op_8XY4(e, x, y) ==
  LET sum == e.reg_v[x] + e.reg_v[y]
  IN  Done(set_then_flag(e, x, sum % U8, IF sum >= U8 THEN 1 ELSE 0))

\* (variant: equal operands count as a borrow)
op_8XY5_borrow_on_equal(e, x, y) ==
  LET diff == e.reg_v[x] - e.reg_v[y]
  IN  Done(set_then_flag(e, x, diff % U8, IF diff <= 0 THEN 0 ELSE 1))

op_8XY5(e, x, y) ==
  LET diff == e.reg_v[x] - e.reg_v[y]
  IN  Done(set_then_flag(e, x, diff % U8, IF diff < 0 THEN 0 ELSE 1))

op_8XY6(e, x, y) ==
  LET v == e.reg_v[y]
  IN  Done(set_then_flag(e, x, v \div 2, v % 2))

op_8XY7(e, x, y) ==
  LET diff == e.reg_v[y] - e.reg_v[x]
  IN  Done(set_then_flag(e, x, diff % U8, IF diff < 0 THEN 0 ELSE 1))

op_8XYE(e, x, y) ==
  LET v == e.reg_v[y]
  IN  Done(set_then_flag(e, x, (v * 2) % U8, IF v > 128 THEN 1 ELSE 0))

op_ANNN(e, nnn) == Done([e EXCEPT !.reg_i = nnn])

\* (variant: VF is cleared before the coordinates are read)
op_DXYN_flag_first(e, x, y, n, checks) ==
  IF e.reg_i + n > MemSize THEN Panic(e)
  ELSE LET c == [e EXCEPT !.reg_v[15] = 0]
           r == draw_sprite(c.screen, Slice(c.memory, c.reg_i, c.reg_i + n),
                            c.reg_v[x] % Cols, c.reg_v[y] % Rows, checks)
       IN  IF r.panic THEN Panic(e)
           ELSE Done([c EXCEPT !.screen = r.content,
                               !.reg_v[15] = IF r.vf_ret THEN 1 ELSE 0])

op_DXYN(e, x, y, n, checks) ==
  IF e.reg_i + n > MemSize THEN Panic(e)
  ELSE LET r == draw_sprite(e.screen, Slice(e.memory, e.reg_i, e.reg_i + n),
                            e.reg_v[x] % Cols, e.reg_v[y] % Rows, checks)
       IN  IF r.panic THEN Panic(e)
           ELSE Done([e EXCEPT !.screen = r.content,
                               !.reg_v[15] = IF r.vf_ret THEN 1 ELSE 0])

op_FX33(e, x) ==
  LET i        == e.reg_i
      units    == e.reg_v[x] % 10
      rest     == e.reg_v[x] \div 10
      tens     == rest % 10
      hundreds == rest \div 10
      e1 == [e  EXCEPT !.memory[i] = hundreds]
      e2 == [e1 EXCEPT !.memory[i + 1] = tens]
      e3 == [e2 EXCEPT !.memory[i + 2] = units]
  IN  IF i >= MemSize THEN Panic(e)
      ELSE IF i + 1 >= MemSize THEN Panic(e1)
      ELSE IF i + 2 >= MemSize THEN Panic(e2)
      ELSE Done(e3)

\* (variant: the range stored ends before V[X])
op_FX55_exclusive(e, x) ==
  IF e.reg_i + x >= MemSize THEN Panic(e)
  ELSE Done([e EXCEPT !.memory =
               [a \in DOMAIN e.memory |->
                  IF a >= e.reg_i /\ a < e.reg_i + x THEN e.reg_v[a - e.reg_i]
                  ELSE e.memory[a]]])

op_FX55(e, x) ==
  IF e.reg_i + x >= MemSize THEN Panic(e)
  ELSE Done([e EXCEPT !.memory =
               [a \in DOMAIN e.memory |->
                  IF a >= e.reg_i /\ a <= e.reg_i + x THEN e.reg_v[a - e.reg_i]
                  ELSE e.memory[a]]])

op_FX65(e, x) ==
  IF e.reg_i + x >= MemSize THEN Panic(e)
  ELSE Done([e EXCEPT !.reg_v =
               [k \in DOMAIN e.reg_v |->
                  IF k <= x THEN e.memory[e.reg_i + k] ELSE e.reg_v[k]]])

\* (variant: the default arm pushes no diagnostic)
op_unknown_silent(e, first, nn) == Done(e)

op_unknown(e, first, nn) == Logged(e, LogUnknown(first, nn))

\* the `match opcat` of tick, after fetch, decode and `self.pc += 2`
dispatch(e, d, checks) ==
  CASE d.opcat = 0 /\ d.nnn = 224  -> op_00E0(e)
    [] d.opcat = 0 /\ d.nnn = 238  -> op_00EE(e)
    [] d.opcat = 1                 -> op_1NNN(e, d.nnn)
    [] d.opcat = 2                 -> op_2NNN(e, d.nnn)
    [] d.opcat = 3                 -> op_3XNN(e, d.x, d.nn)
    [] d.opcat = 4                 -> op_4XNN(e, d.x, d.nn)
    [] d.opcat = 5 /\ d.n = 0      -> op_5XY0(e, d.x, d.y)
    [] d.opcat = 6                 -> op_6XNN(e, d.x, d.nn)
    [] d.opcat = 7                 -> op_7XNN(e, d.x, d.nn)
    [] d.opcat = 8 /\ d.n = 0      -> op_8XY0(e, d.x, d.y)
    [] d.opcat = 8 /\ d.n = 1      -> op_8XY1(e, d.x, d.y)
    [] d.opcat = 8 /\ d.n = 2      -> op_8XY2(e, d.x, d.y)
    [] d.opcat = 8 /\ d.n = 3      -> op_8XY3(e, d.x, d.y)
    [] d.opcat = 8 /\ d.n = 4      -> op_8XY4(e, d.x, d.y)
    [] d.opcat = 8 /\ d.n = 5      -> op_8XY5(e, d.x, d.y)
    [] d.opcat = 8 /\ d.n = 6      -> op_8XY6(e, d.x, d.y)
    [] d.opcat = 8 /\ d.n = 7      -> op_8XY7(e, d.x, d.y)
    [] d.opcat = 8 /\ d.n = 14     -> op_8XYE(e, d.x, d.y)
    [] d.opcat = 9 /\ d.n = 0      -> op_9XY0(e, d.x, d.y)
    [] d.opcat = 10                -> op_ANNN(e, d.nnn)
    [] d.opcat = 13                -> op_DXYN(e, d.x, d.y, d.n, checks)
    [] d.opcat = 15 /\ d.nn = 51   -> op_FX33(e, d.x)
    [] d.opcat = 15 /\ d.nn = 85   -> op_FX55(e, d.x)
    [] d.opcat = 15 /\ d.nn = 101  -> op_FX65(e, d.x)
    [] OTHER                       -> op_unknown(e, d.first, d.nn)

tick(e, checks) ==
  IF ~fetch_ok(e) THEN Panic(e)
  ELSE dispatch(advance(e), decode(e), checks)

(***************************************************************************)
(* The ROM files the user can pick.  A ROM is a sequence of bytes; the     *)
(* programs are written as sequences of big-endian 16-bit words.           *)
(***************************************************************************)
Asm(words) ==
  [i \in 1..(2 * Len(words)) |->
     IF i % 2 = 1 THEN words[(i + 1) \div 2] \div 256 ELSE words[i \div 2] % 256]

RECURSIVE Flatten(_)
Flatten(ss) == IF Len(ss) = 0 THEN << >> ELSE Head(ss) \o Flatten(Tail(ss))

\* the words followed by a jump to itself (1NNN with NNN its own address)
WithHalt(words) == Append(words, 4096 + ProgStart + 2 * Len(words))

JP(nnn)       == 4096 + nnn
CALL(nnn)     == 8192 + nnn
SE(x, nn)     == 12288 + 256 * x + nn
SNE(x, nn)    == 16384 + 256 * x + nn
SEV(x, y)     == 20480 + 256 * x + 16 * y
LD(x, nn)     == 24576 + 256 * x + nn
ADD(x, nn)    == 28672 + 256 * x + nn
ALU(x, y, n)  == 32768 + 256 * x + 16 * y + n
SNEV(x, y)    == 36864 + 256 * x + 16 * y
LDI(nnn)      == 40960 + nnn
DRW(x, y, n)  == 53248 + 256 * x + 16 * y + n
FX(x, nn)     == 61440 + 256 * x + nn
CLS == 224
RET == 238

RegPairs == << <<0, 1>>, <<1, 1>>, <<15, 1>>, <<1, 15>>, <<15, 15>> >>
ValPairs == << <<255, 1>>, <<10, 1>>, <<1, 10>>, <<7, 7>>,
               <<0, 128>>, <<129, 127>>, <<1, 255>> >>

\* the instructions tried on registers X, Y holding a, b
AluOps(x, y, a, b) ==
  << ALU(x, y, 0), ALU(x, y, 1), ALU(x, y, 2), ALU(x, y, 3), ALU(x, y, 4),
     ALU(x, y, 5), ALU(x, y, 6), ALU(x, y, 7), ALU(x, y, 14),
     SEV(x, y), SNEV(x, y), SE(x, a), SE(x, b), SNE(x, a), SNE(x, b),
     ADD(x, b) >>

\* set V[X] = a, V[Y] = b, run the instruction; the last word is a no-op
\* (V0 := V0) that a skip may jump over
AluSection(x, y, a, b, op) == << LD(x, a), LD(y, b), op, ALU(0, 0, 0) >>

AluRom(rp) ==
  Asm(WithHalt(Flatten(
    [v \in 1..Len(ValPairs) |->
       Flatten([o \in 1..16 |->
                  AluSection(rp[1], rp[2], ValPairs[v][1], ValPairs[v][2],
                             AluOps(rp[1], rp[2], ValPairs[v][1], ValPairs[v][2])[o])])])))

SpriteData == << 255, 129, 60, 1, 128, 170, 85, 24, 255, 255, 15, 240, 1, 2, 4 >>

\* one two-row draw at every column 0..63 of row 0; the sprite bytes follow
\* the code
SweepCode ==
  WithHalt(Flatten([c \in 1..Cols |->
                      << LDI(ProgStart + 2 * (4 * Cols + 1)), LD(0, c - 1), LD(1, 0),
                         DRW(0, 1, 2) >>]))
SweepRom == Asm(SweepCode) \o SpriteData

DrawXs == << 0, 55, 56, 70, 57, 63 >>
DrawYs == << 0, 30, 63 >>
DrawNs == << 0, 1, 5, 15 >>
DrawRegs == << <<0, 1>>, <<15, 1>>, <<1, 15>> >>

\* draws of 0, 1, 5 and 15 rows at several places, each made twice
MixCode ==
  WithHalt(Flatten(
    [i \in 1..Len(DrawXs) |->
       Flatten([j \in 1..Len(DrawYs) |->
          Flatten([k \in 1..Len(DrawNs) |->
             LET rp == DrawRegs[((i + j + k) % Len(DrawRegs)) + 1]
             IN  << LDI(ProgStart + 2 * (5 * Len(DrawXs) * Len(DrawYs) * Len(DrawNs) + 1)),
                    LD(rp[1], DrawXs[i]), LD(rp[2], DrawYs[j]),
                    DRW(rp[1], rp[2], DrawNs[k]), DRW(rp[1], rp[2], DrawNs[k]) >>])])]))
MixRom == Asm(MixCode) \o SpriteData

\* d nested calls, then the returns: the call at 0x200 + 4k jumps to
\* 0x200 + 4(k+1); the word after each call is a return, the first one a halt
CallChain(d) ==
  Asm(Flatten([k \in 1..(d + 1) |->
                 IF k = d + 1 THEN << RET >>
                 ELSE << CALL(ProgStart + 4 * k),
                         IF k = 1 THEN JP(ProgStart + 2) ELSE RET >>]))

\* a ROM of the largest accepted size: a jump to the last word, which skips
MaxRomLen == MemSize - ProgStart
TopSkipRom ==
  [i \in 1..MaxRomLen |->
     IF i = 1 THEN 31 ELSE IF i = 2 THEN 254
     ELSE IF i = MaxRomLen - 1 THEN 48 ELSE 0]
TooBigRom == [i \in 1..(MaxRomLen + 1) |-> 0]

\* a ROM of the largest accepted size: a jump to the last word, which calls
\* the halt at 0x202
TopCallRom ==
  [i \in 1..MaxRomLen |->
     IF i = 1 THEN 31 ELSE IF i = 2 THEN 254
     ELSE IF i = 3 THEN 18 ELSE IF i = 4 THEN 2
     ELSE IF i = MaxRomLen - 1 THEN 34 ELSE IF i = MaxRomLen THEN 2 ELSE 0]

\* the one-row sprite 0xFF drawn twice at (0, 0) of the blank framebuffer
TwiceRom == Asm(WithHalt(<< LDI(ProgStart + 8), DRW(0, 1, 1), DRW(0, 1, 1) >>)) \o << 255 >>

\* FX55 then FX65 with X = F, 3 and 0, the registers overwritten in between;
\* the last FX65 follows an FX33 that rewrote the stored bytes
RoundTripRom ==
  Asm(WithHalt(
    [k \in 1..16 |-> LD(k - 1, 16 * (k - 1) + 1)] \o
    << LDI(768), FX(15, 85), LD(0, 0), LD(7, 0), LD(15, 0), FX(15, 101),
       LDI(4092), FX(3, 85), LD(2, 99), LD(5, 99), FX(3, 101),
       LDI(4095), FX(0, 85), LD(0, 200), FX(0, 101),
       LDI(780), FX(2, 85), FX(9, 51), FX(2, 101) >>))

\* draws whose X or Y is F: a sprite drawn at (55, 3) and erased with X = F,
\* then drawn with Y = F, the second time colliding in its first row only
FlagRom ==
  Asm(WithHalt(<< LDI(ProgStart + 22), LD(0, 55), LD(1, 3), DRW(0, 1, 2),
                  LD(15, 55), DRW(15, 1, 2), LD(15, 3), DRW(0, 15, 1),
                  LD(15, 3), DRW(0, 15, 2) >>)) \o << 255, 129 >>

\* a background of two 15-row sprites in columns 0..7, then a loop over the
\* rows y = 0..31 that draws, twice each, the sprites of 0..15 rows at
\* column x, x stepping by 7 from 0 to 56 and starting again
RowSweepCode ==
  << LDI(ProgStart + 2 * 44), DRW(0, 1, 15), LD(1, 17), DRW(0, 1, 15), LD(1, 0) >> \o
  Flatten([k \in 1..16 |-> << DRW(0, 1, k - 1), DRW(0, 1, k - 1) >>]) \o
  << ADD(0, 7), SNE(0, 63), LD(0, 0), ADD(1, 1), SE(1, Rows), JP(ProgStart + 10),
     JP(ProgStart + 2 * 43) >>
RowSweepRom == Asm(RowSweepCode) \o SpriteData

\* instructions of every family executed while pixels are lit, and 00E0
ClearRom ==
  Asm(WithHalt(<< LDI(FontStart + 5), LD(0, 3), DRW(0, 1, 5), SEV(0, 1) + 1, RET,
                  LD(3, 4), ADD(3, 1), ALU(3, 0, 4), SE(3, 8), SNE(3, 8), SEV(3, 3),
                  SNEV(3, 3), CALL(ProgStart + 28), JP(ProgStart + 30), RET,
                  FX(3, 51), FX(3, 85), FX(3, 101), LDI(FontStart),
                  CLS, LD(1, 30), DRW(0, 1, 5), CLS >>))

\* the files of the full host model: short programs, one per situation
ROMS ==
  << Asm(<< JP(4095) >>),
     Asm(<< JP(4094) >>),
     << 0, 224, 18 >>,
     Asm(<< LDI(4094), LD(0, 234), FX(0, 51) >>),
     Asm(<< LDI(4095), LD(0, 234), FX(0, 51) >>),
     Asm(WithHalt(<< LDI(4093), LD(0, 234), FX(0, 51), CLS >>)),
     Asm(<< LD(0, 7), LD(1, 9), LDI(4095), FX(1, 85) >>),
     Asm(WithHalt(<< LD(0, 7), LD(1, 9), LDI(4094), FX(1, 85), LD(0, 0), LD(1, 0),
                     FX(1, 101) >>)),
     Asm(<< LD(0, 7), LD(1, 9), LDI(4095), FX(1, 101) >>),
     Asm(<< LDI(4095), DRW(0, 0, 2) >>),
     Asm(WithHalt(<< LDI(4095), DRW(0, 0, 1) >>)),
     Asm(WithHalt(<< LDI(FontStart), LD(0, 60), DRW(0, 1, 5) >>)),
     Asm(WithHalt(<< LDI(FontStart), LD(0, 3), DRW(0, 1, 5), CALL(ProgStart + 10),
                     JP(ProgStart + 8), LDI(0), LD(2, 234), FX(2, 51), LDI(FontStart),
                     DRW(0, 1, 5), LD(0, 20), DRW(0, 1, 5), RET >>)),
     Asm(WithHalt(<< LD(15, 5), ADD(15, 3), LD(1, 9), ALU(15, 1, 0), LDI(ProgStart),
                     FX(15, 101) >>)),
     Asm(WithHalt(<< LD(1, 128), ALU(0, 1, 14), LD(1, 129), ALU(0, 1, 14),
                     LD(1, 127), ALU(0, 1, 14) >>)),
     Asm(WithHalt(<< RET, CALL(ProgStart + 6), RET, RET >>)),
     Asm(<< CALL(ProgStart) >>),
     Asm(WithHalt(<< 0, 291, SEV(0, 1) + 1, SNEV(0, 1) + 1, ALU(0, 1, 8), ALU(0, 1, 9),
                     ALU(0, 1, 10), ALU(0, 1, 11), ALU(0, 1, 12), ALU(0, 1, 13),
                     ALU(0, 1, 15), 45347, 49443, 57758, FX(0, 7), FX(1, 50),
                     FX(15, 255) >>)),
     TopSkipRom,
     TooBigRom >>

\* the files of the single-program model: the above and the long programs
RunRoms ==
  ROMS \o [p \in 1..Len(RegPairs) |-> AluRom(RegPairs[p])]
       \o << SweepRom, MixRom, CallChain(MaxStack) >>
       \o << TopCallRom, TwiceRom, RoundTripRom, ClearRom, FlagRom, RowSweepRom >>

Filenames == { "game.ch8" }

\* Emulator::new of every file
new_emulators == [i \in DOMAIN RunRoms |-> Emulator_new(RunRoms[i])]

(***************************************************************************)
(* The host application.  `dialogs` counts the file dialogs that are open  *)
(* (Command::perform futures whose ROMOpened message is still to come).    *)
(* `last` records the last ROMOpened or Tick message processed: for a Tick *)
(* the address and the two bytes it fetched, for a ROMOpened its outcome   *)
(* ("ROMOpened" for a load, "Refused", "Closed"), the index of the file    *)
(* and, for a load, whether it replaced an emulator with a non-empty       *)
(* stack, lit pixels, modified memory and registers.  For a Tick it also   *)
(* keeps the framebuffer and the V registers the step started from, and    *)
(* `saved`: X, I and the V registers of the latest completed FX55, as long *)
(* as no later step changed I or one of the bytes that FX55 wrote.         *)
(***************************************************************************)
\* no FX55 has completed since the load, or I or the bytes it wrote have
\* changed since
NoSaved == [x |-> -1, i |-> 0, v |-> [k \in 0..15 |-> 0]]

NoLast ==
  [msg |-> "None", at |-> 0, first |-> 0, nn |-> 0, rom |-> 0, dirty |-> FALSE,
   screen |-> Screen_default, reg_v |-> [k \in 0..15 |-> 0], saved |-> NoSaved]

Dirty(o) ==
  /\ is_some(o)
  /\ LET e == unwrap(o)
     IN  /\ e.stack # << >>
         /\ e.screen # Screen_default
         /\ e.pc # ProgStart
         /\ e.reg_i # 0
         /\ \E k \in 0..15 : e.reg_v[k] # 0
         /\ \E a \in 0..(FontStart - 1) : e.memory[a] # 0

Init ==
  /\ emulator = None
  /\ logs = << >>
  /\ dialogs = 0
  /\ panicked = FALSE
  /\ overflow_checks \in BOOLEAN
  /\ last = NoLast

\* Message::LoadROM: opens a file dialog
LoadROM ==
  /\ ~panicked
  /\ dialogs < MaxDialogs
  /\ dialogs' = dialogs + 1
  /\ UNCHANGED <<emulator, logs, panicked, overflow_checks, last>>

\* Message::ROMOpened(None)
ROMOpenedNone ==
  /\ ~panicked
  /\ dialogs > 0
  /\ Len(logs) < MaxLogs
  /\ dialogs' = dialogs - 1
  /\ logs' = Append(logs, LogDialogClosed)
  /\ last' = [NoLast EXCEPT !.msg = "Closed"]
  /\ UNCHANGED <<emulator, panicked, overflow_checks>>

\* Message::ROMOpened(Some((rom, filename))) with the i-th file
ROMOpenedSome(i, filename) ==
  /\ ~panicked
  /\ dialogs > 0
  /\ LET rom_len == Len(RunRoms[i])
         new     == new_emulators[i]
     IN  IF is_some(new)
         THEN /\ emulator' = new
              /\ logs' = IF rom_len % 2 > 0
                         THEN << LogLoaded(filename), LogOdd(rom_len) >>
                         ELSE << LogLoaded(filename) >>
              /\ last' = [NoLast EXCEPT !.msg = "ROMOpened", !.rom = i,
                                        !.dirty = Dirty(emulator)]
         ELSE /\ Len(logs) < MaxLogs
              /\ logs' = Append(logs, LogTooBig(filename))
              /\ last' = [NoLast EXCEPT !.msg = "Refused", !.rom = i]
              /\ UNCHANGED emulator
  /\ dialogs' = dialogs - 1
  /\ UNCHANGED <<panicked, overflow_checks>>

ROMOpenedLoaded ==
  \E i \in DOMAIN ROMS, filename \in Filenames :
    is_some(new_emulators[i]) /\ ROMOpenedSome(i, filename)

ROMOpenedRefused ==
  \E i \in DOMAIN ROMS, filename \in Filenames :
    ~is_some(new_emulators[i]) /\ ROMOpenedSome(i, filename)

\* Message::ClearLog: the button is enabled while there are logs
ClearLog ==
  /\ ~panicked
  /\ Len(logs) > 0
  /\ logs' = << >>
  /\ UNCHANGED <<emulator, dialogs, panicked, overflow_checks, last>>

\* (variant: the tick subscription is always installed)
subscription_always(o) == TRUE

\* App::subscription: the ticks are scheduled while an emulator exists
subscription(o) == is_some(o)

\* `saved` after a step from e to r.emulator
saved_after(e, r, saved) ==
  LET d == decode(e)
      n == r.emulator
  IN  IF fetch_ok(e) /\ ~r.panic /\ d.opcat = 15 /\ d.nn = 85
      THEN [x |-> d.x, i |-> e.reg_i, v |-> e.reg_v]
      ELSE IF saved.x >= 0 /\
              (n.reg_i # saved.i \/
               \E k \in 0..saved.x : n.memory[saved.i + k] # e.memory[saved.i + k])
      THEN NoSaved
      ELSE saved

\* Message::Tick: `self.emulator.as_mut().unwrap().tick()`, the unwrap
\* panicking when there is no emulator
Tick ==
  /\ ~panicked
  /\ subscription(emulator)
  /\ IF ~is_some(emulator)
     THEN /\ panicked' = TRUE
          /\ last' = [NoLast EXCEPT !.msg = "Tick"]
          /\ UNCHANGED <<emulator, logs>>
     ELSE LET e == unwrap(emulator)
              r == tick(e, overflow_checks)
              h == [NoLast EXCEPT !.msg = "Tick", !.at = e.pc, !.screen = e.screen,
                                  !.reg_v = e.reg_v,
                                  !.saved = saved_after(e, r, last.saved)]
          IN  /\ Len(logs) + Len(r.log) <= MaxLogs
              /\ Len(r.emulator.stack) <= MaxStack
              /\ emulator' = Some(r.emulator)
              /\ logs' = logs \o r.log
              /\ panicked' = r.panic
              /\ last' = IF fetch_ok(e)
                         THEN [h EXCEPT !.first = decode(e).first,
                                        !.nn = decode(e).nn]
                         ELSE h
  /\ UNCHANGED <<dialogs, overflow_checks>>

Next ==
  \/ LoadROM
  \/ ROMOpenedNone
  \/ ROMOpenedLoaded
  \/ ROMOpenedRefused
  \/ ClearLog
  \/ Tick

Spec == Init /\ [][Next]_vars

(***************************************************************************)
(* The sessions in which one program is loaded and run: the dialog is      *)
(* opened while no emulator exists and no dialog is open, with any of the *)
(* files.                                                                  *)
(***************************************************************************)
LoadFirst == ~is_some(emulator) /\ dialogs = 0 /\ LoadROM

RunOpened == \E i \in DOMAIN RunRoms, filename \in Filenames : ROMOpenedSome(i, filename)

NextRun ==
  \/ LoadFirst
  \/ RunOpened
  \/ ClearLog
  \/ Tick

SpecRun == Init /\ [][NextRun]_vars

TypeOK ==
  /\ panicked \in BOOLEAN
  /\ dialogs \in 0..MaxDialogs
  /\ Len(logs) <= MaxLogs
  /\ is_some(emulator) =>
       LET e == unwrap(emulator)
       IN  /\ e.pc \in 0..(U16 - 1)
           /\ e.reg_i \in 0..(U16 - 1)
           /\ \A k \in 0..15 : e.reg_v[k] \in 0..(U8 - 1)
           /\ Len(e.stack) <= MaxStack

(***************************************************************************)
(* Properties.                                                             *)
(***************************************************************************)
\* the emulator of a state in which one exists
E == unwrap(emulator)

\* the step is a Tick that fetches an instruction of the given family
TickOf(opcat) == Tick /\ fetch_ok(E) /\ decode(E).opcat = opcat

\* C1: a step that starts with PC >= 4095 (a fetch outside memory) does not
\* terminate the process: the host can go on deciding whether to step.
C1_FetchOutOfRangeKeepsProcess ==
  (last.msg = "Tick" /\ last.at >= MemSize - 1) => ~panicked

\* FX33, FX55, FX65 or DXYN whose range from I runs past the end of memory
BlockOpOutOfRange(e) ==
  /\ fetch_ok(e)
  /\ LET d == decode(e)
     IN  \/ d.opcat = 15 /\ d.nn = 51 /\ e.reg_i + 2 > MemSize - 1
         \/ d.opcat = 15 /\ d.nn \in {85, 101} /\ e.reg_i + d.x > MemSize - 1
         \/ d.opcat = 13 /\ e.reg_i + d.n > MemSize

\* C2: a step of FX33, FX55, FX65 or DXYN whose range runs past address 4095
\* is not partially applied: it changes no memory byte, no V register and
\* no framebuffer row.
C2_BlockOpNotPartiallyApplied ==
  [][(Tick /\ BlockOpOutOfRange(E)) =>
       /\ E'.memory = E.memory
       /\ E'.reg_v = E.reg_v
       /\ E'.screen = E.screen]_vars

\* C3 (as stated): in every reachable state VF holds 0 or 1.
C3_VFAlwaysZeroOrOne ==
  is_some(emulator) => E.reg_v[15] \in {0, 1}

\* the instructions that write a flag to VF
IsFlagOp(first, nn) ==
  \/ first \div 16 = 8 /\ nn % 16 \in {4, 5, 6, 7, 14}
  \/ first \div 16 = 13

\* C3 (amended): after every completed step of 8XY4, 8XY5, 8XY6, 8XY7, 8XYE
\* or DXYN, for every X including F, VF holds 0 or 1.
C3_FlagOpsLeaveZeroOrOne ==
  (last.msg = "Tick" /\ ~panicked /\ IsFlagOp(last.first, last.nn))
    => E.reg_v[15] \in {0, 1}

\* C3 witness: 8FY4 has run with a carry: the sum went to VF, then the flag.
C3_Witness ==
  /\ last.msg = "Tick" /\ ~panicked
  /\ last.first = 143 /\ last.nn % 16 = 4
  /\ E.reg_v[15] = 1

\* the bits of a row that a sprite byte b at column x toggles: column x + k
\* for every k with bit 7 - k of b set and x + k <= 63 (column c is bit 63 - c)
ExpectedToggle(x, b) ==
  {Cols - 1 - (x + k) : k \in {j \in 0..7 : Bit(b, 7 - j) = 1 /\ x + j <= Cols - 1}}

\* C4: a DXYN step completes without an overflow failure and toggles, in
\* every row it draws, exactly the pixels of the sprite byte that fall on
\* columns x .. 63, and no other pixel.
C4_DrawTogglesSpritePixels ==
  [][(TickOf(13) /\ E.reg_i + decode(E).n <= MemSize) =>
       LET d    == decode(E)
           x    == E.reg_v[d.x] % Cols
           y    == E.reg_v[d.y] % Rows
           rows == Min(d.n, Rows - y)
       IN  /\ ~panicked'
           /\ \A r \in 0..(Rows - 1) :
                E'.screen[r] =
                  IF r >= y /\ r < y + rows
                  THEN xor64(E.screen[r], ExpectedToggle(x, E.memory[E.reg_i + r - y]))
                  ELSE E.screen[r]]_vars

\* C5: 8XYE sets VF to 1 exactly when V[Y] >= 0x80 and, for X other than F,
\* V[X] to (V[Y] * 2) mod 256.
C5_ShiftLeftFlagIsTopBit ==
  [][(TickOf(8) /\ decode(E).n = 14) =>
       LET d == decode(E)
           v == E.reg_v[d.y]
       IN  /\ E'.reg_v[15] = (IF v >= 128 THEN 1 ELSE 0)
           /\ d.x # 15 => E'.reg_v[d.x] = (v * 2) % U8]_vars

\* C6: right after a successful load of a ROM, whatever the emulator before
\* it was, memory holds the ROM from 0x200, the font table in 0x050..0x09F
\* and 0 elsewhere, PC = 0x200, I = 0, every V register is 0, the call
\* stack is empty and every framebuffer row is 0.
C6_LoadBuildsFreshEmulator ==
  last.msg = "ROMOpened" =>
    LET rom == RunRoms[last.rom]
    IN  /\ is_some(emulator)
        /\ \A a \in 0..4095 :
             E.memory[a] = IF a >= 512 /\ a < 512 + Len(rom) THEN rom[a - 511]
                           ELSE IF a >= 80 /\ a < 160 THEN FONT[a - 79]
                           ELSE 0
        /\ E.pc = 512
        /\ E.reg_i = 0
        /\ \A k \in 0..15 : E.reg_v[k] = 0
        /\ E.stack = << >>
        /\ \A r \in 0..31 : E.screen[r] = {}

\* C6 witness: a ROM of the largest size has been loaded over an emulator
\* that had a non-empty stack, lit pixels, modified memory and registers.
C6_Witness ==
  /\ last.msg = "ROMOpened"
  /\ last.dirty
  /\ Len(RunRoms[last.rom]) = 3584

\* C7: a ROMOpened message with a file is refused exactly when the ROM is
\* longer than 3584 bytes; a refusal leaves the emulator (or its absence)
\* as it was, still stepped if it existed, and appends the one diagnostic
\* "ROM size too big".
C7_RefusedExactlyWhenTooBig ==
  [][(dialogs' = dialogs - 1 /\ last'.msg \in {"ROMOpened", "Refused"}) =>
       IF Len(RunRoms[last'.rom]) > 3584
       THEN /\ last'.msg = "Refused"
            /\ emulator' = emulator
            /\ panicked' = panicked
            /\ logs' = Append(logs, "Error when loading game.ch8: ROM size too big")
       ELSE /\ last'.msg = "ROMOpened"
            /\ is_some(emulator')]_vars

\* C7 witness: a load has been refused while a program was running inside a
\* subroutine; the emulator is still there and the diagnostic is the last log.
C7_Witness ==
  /\ last.msg = "Refused"
  /\ is_some(emulator)
  /\ E.stack # << >>
  /\ logs[Len(logs)] = "Error when loading game.ch8: ROM size too big"

\* C8: the call stack is last-in first-out: 2NNN pushes the address of the
\* next instruction and jumps to NNN; 00EE with a non-empty stack jumps to
\* the most recently pushed address and removes exactly that entry; 00EE
\* right after a 2NNN ends at the call's address + 2 with the stack as it
\* was before the call.
C8_CallStackIsLifo ==
  [][/\ TickOf(2) =>
          /\ E'.stack = Append(E.stack, E.pc + 2)
          /\ E'.pc = decode(E).nnn
     /\ (TickOf(0) /\ decode(E).nnn = 238 /\ E.stack # << >>) =>
          /\ E'.pc = E.stack[Len(E.stack)]
          /\ E'.stack = SubSeq(E.stack, 1, Len(E.stack) - 1)
          /\ (last.msg = "Tick" /\ last.first \div 16 = 2) =>
               /\ E'.pc = last.at + 2
               /\ Append(E'.stack, last.at + 2) = E.stack]_vars

\* C8 witness: a return has been made from more than 16 nested calls, to the
\* address after a call instruction.
C8_Witness ==
  /\ last.msg = "Tick" /\ last.first = 0 /\ last.nn = 238
  /\ Len(E.stack) >= 16
  /\ E.memory[E.pc - 2] \div 16 = 2

\* the two-byte opcodes that match no row of the opcode table
IsUnknown(first, nn) ==
  LET c   == first \div 16
      n   == nn % 16
      nnn == (first % 16) * 256 + nn
  IN  \/ c = 0 /\ nnn \notin {224, 238}
      \/ c \in {5, 9} /\ n # 0
      \/ c = 8 /\ n \in {8, 9, 10, 11, 12, 13, 15}
      \/ c \in {11, 12, 14}
      \/ c = 15 /\ nn \notin {51, 85, 101}

\* C9: a step of an opcode outside the opcode table changes nothing of the
\* emulator but PC, which advances by 2, and appends exactly one diagnostic.
C9_UnknownOpcodeOnlyAdvances ==
  [][(Tick /\ fetch_ok(E) /\ IsUnknown(decode(E).first, decode(E).nn)) =>
       /\ E' = [E EXCEPT !.pc = E.pc + 2]
       /\ ~panicked'
       /\ Len(logs') = Len(logs) + 1
       /\ SubSeq(logs', 1, Len(logs)) = logs]_vars

\* C9 witness: the unmatched opcode 801F has been stepped over and logged.
C9_Witness ==
  /\ last.msg = "Tick" /\ last.first = 128 /\ last.nn = 31
  /\ ~panicked
  /\ E.pc = last.at + 2
  /\ logs # << >>
  /\ logs[Len(logs)] = "Unknown instruction 801f; skipping"

\* C10: 00EE with an empty call stack only advances PC by 2 and appends the
\* one warning; the stack stays empty, registers, memory and framebuffer
\* are unchanged and the emulator goes on being stepped.
C10_EmptyReturnIsNoOp ==
  [][(TickOf(0) /\ decode(E).nnn = 238 /\ E.stack = << >>) =>
       /\ E' = [E EXCEPT !.pc = E.pc + 2]
       /\ E'.stack = << >>
       /\ ~panicked'
       /\ logs' = Append(logs, "Warning: attempted to return while stack is empty.")]_vars

\* C10 witness: a return has been executed with an empty stack and warned.
C10_Witness ==
  /\ last.msg = "Tick" /\ last.first = 0 /\ last.nn = 238
  /\ ~panicked
  /\ E.stack = << >>
  /\ E.pc = last.at + 2
  /\ logs # << >>
  /\ logs[Len(logs)] = "Warning: attempted to return while stack is empty."

\* the DXYN about to be executed repeats the draw of the previous step: the
\* same number of rows at the same location (I and the memory are those of
\* the previous step, which was a DXYN)
SameDrawAgain ==
  /\ last.msg = "Tick"
  /\ last.first \div 16 = 13
  /\ LET d == decode(E)
     IN  /\ d.n = last.nn % 16
         /\ E.reg_v[d.x] % Cols = last.reg_v[last.first % 16] % Cols
         /\ E.reg_v[d.y] % Rows = last.reg_v[(last.nn \div 16) % 16] % Rows

\* the DXYN about to be executed draws the one-row sprite 0xFF at (0, 0)
DrawsFFAtOrigin ==
  LET d == decode(E)
  IN  /\ d.n = 1
      /\ E.reg_i < MemSize
      /\ E.memory[E.reg_i] = 255
      /\ E.reg_v[d.x] % Cols = 0
      /\ E.reg_v[d.y] % Rows = 0

\* C11: drawing is an involution: a draw that repeats the previous draw (same
\* sprite, same location) leaves every framebuffer row as it was before the
\* first of the two; on the blank framebuffer the first draw of [0xFF] at
\* (0, 0) sets row 0 to 0xFF << 56 with no collision, and the second one
\* reports a collision.
C11_DrawTwiceRestores ==
  [][(TickOf(13) /\ ~panicked') =>
       /\ SameDrawAgain => E'.screen = last.screen
       /\ (DrawsFFAtOrigin /\ E.screen = Screen_default) =>
            /\ E'.screen = [Screen_default EXCEPT ![0] = 56..63]
            /\ E'.reg_v[15] = 0
       /\ (DrawsFFAtOrigin /\ SameDrawAgain /\ last.screen = Screen_default) =>
            E'.reg_v[15] = 1]_vars

C11_Witness ==
  /\ is_some(emulator)
  /\ last.msg = "Tick"
  /\ last.first \div 16 = 13
  /\ last.reg_v[15] = 0
  /\ last.screen = [Screen_default EXCEPT ![0] = 56..63]
  /\ E.screen = Screen_default
  /\ E.reg_v[15] = 1

\* the pixels of columns x..x+7 (those that exist), as bits of a row
Columns(x) == { Cols - 1 - c : c \in x..Min(x + 7, Cols - 1) }

\* C12: after every completed DXYN, VF is 1 if the draw turned off a pixel
\* that was lit before it, in any row, and 0 otherwise, whatever VF held; the
\* pixels changed lie in the 8 columns from V[X] mod 64 and the n rows from
\* V[Y] mod 32, V[X] and V[Y] being the registers before the step, also when
\* X or Y is F.
C12_DrawSetsCollisionFlag ==
  [][(TickOf(13) /\ ~panicked') =>
       LET d == decode(E)
           x == E.reg_v[d.x] % Cols
           y == E.reg_v[d.y] % Rows
       IN  /\ E'.reg_v[15] =
                IF \E r \in 0..(Rows - 1) : E.screen[r] \ E'.screen[r] # {}
                THEN 1 ELSE 0
           /\ \A r \in 0..(Rows - 1) :
                E'.screen[r] # E.screen[r] =>
                  /\ r \in y..(y + d.n - 1)
                  /\ (E.screen[r] \ E'.screen[r]) \cup (E'.screen[r] \ E.screen[r])
                       \subseteq Columns(x)]_vars

\* DFYN with VF = 55 has erased the sprite at column 55
C12_Witness ==
  /\ is_some(emulator)
  /\ last.msg = "Tick"
  /\ last.first = 223
  /\ last.reg_v[15] = 55
  /\ last.screen # Screen_default
  /\ E.screen = Screen_default
  /\ E.reg_v[15] = 1

\* C13: a sprite is clipped at the bottom edge, never wrapped: a completed
\* draw of n rows at row y = V[Y] mod 32 changes no framebuffer row outside
\* y..min(y + n, 32) - 1, and the framebuffer keeps its 32 rows.
C13_DrawClipsAtBottom ==
  [][(TickOf(13) /\ ~panicked') =>
       LET d == decode(E)
           y == E.reg_v[d.y] % Rows
       IN  /\ DOMAIN E'.screen = 0..(Rows - 1)
           /\ \A r \in 0..(Rows - 1) :
                r \notin y..(Min(y + d.n, Rows) - 1) => E'.screen[r] = E.screen[r]]_vars

\* a 5-row sprite drawn at y = 30 has changed rows 30 and 31 only
C13_Witness ==
  /\ is_some(emulator)
  /\ last.msg = "Tick"
  /\ last.first \div 16 = 13
  /\ last.nn % 16 = 5
  /\ last.reg_v[(last.nn \div 16) % 16] % Rows = 30
  /\ E.screen[30] # last.screen[30]
  /\ E.screen[31] # last.screen[31]
  /\ \A r \in 0..29 : E.screen[r] = last.screen[r]

\* the instruction fetched is one of the four skips
IsSkip(d) == d.opcat \in {3, 4} \/ (d.opcat \in {5, 9} /\ d.n = 0)

\* the condition of the skip instruction d in the emulator e
SkipCondition(e, d) ==
  CASE d.opcat = 3 -> e.reg_v[d.x] = d.nn
    [] d.opcat = 4 -> e.reg_v[d.x] # d.nn
    [] d.opcat = 5 -> e.reg_v[d.x] = e.reg_v[d.y]
    [] d.opcat = 9 -> e.reg_v[d.x] # e.reg_v[d.y]

\* C14: a step of 3XNN, 4XNN, 5XY0 or 9XY0 advances PC by exactly 4 when its
\* condition holds and by exactly 2 when it does not, and changes nothing
\* else: registers, I, memory, stack, framebuffer and logs stay as they were.
C14_SkipAdvancesTwoOrFour ==
  [][(Tick /\ fetch_ok(E) /\ IsSkip(decode(E))) =>
       /\ ~panicked'
       /\ logs' = logs
       /\ E' = [E EXCEPT !.pc = E.pc + (IF SkipCondition(E, decode(E)) THEN 4 ELSE 2)]]_vars

\* 9XY0 with V[X] # V[Y] has skipped the next instruction
C14_Witness ==
  /\ is_some(emulator)
  /\ last.msg = "Tick"
  /\ last.first \div 16 = 9
  /\ last.nn % 16 = 0
  /\ last.reg_v[last.first % 16] # last.reg_v[last.nn \div 16]
  /\ E.pc = last.at + 4
  /\ E.reg_v = last.reg_v

\* the V registers after a flag instruction on register X with the given
\* result and flag: the flag is what VF holds, also when X is F
FlagResult(v, x, result, flag) ==
  [k \in 0..15 |-> IF k = 15 THEN flag ELSE IF k = x THEN result ELSE v[k]]

\* C15: 8XY4 with a = V[X] and b = V[Y] before the step leaves VF = 1 exactly
\* when a + b > 255, VF = 0 otherwise, and V[X] = (a + b) mod 256 when X is
\* not F; the flag is the last write, so VF holds the flag for every X and Y.
\* Only PC, V[X] and VF change.
C15_AddSetsCarry ==
  [][(TickOf(8) /\ decode(E).n = 4) =>
       LET d == decode(E)
           a == E.reg_v[d.x]
           b == E.reg_v[d.y]
       IN  /\ ~panicked'
           /\ logs' = logs
           /\ E' = [E EXCEPT !.pc = E.pc + 2,
                             !.reg_v = FlagResult(E.reg_v, d.x, (a + b) % 256,
                                                  IF a + b > 255 THEN 1 ELSE 0)]]_vars

\* 81F4 with V1 = 255 and VF = 1: the sum is exactly 256
C15_Witness ==
  /\ is_some(emulator)
  /\ last.msg = "Tick"
  /\ last.first = 129
  /\ last.nn = 244
  /\ last.reg_v[1] = 255
  /\ last.reg_v[15] = 1
  /\ E.reg_v[1] = 0
  /\ E.reg_v[15] = 1

\* C16: 8XY5 leaves V[X] = (a - b) mod 256 and VF = 1 exactly when a >= b;
\* 8XY7 leaves V[X] = (b - a) mod 256 and VF = 1 exactly when b >= a; a and
\* b are V[X] and V[Y] before the step, the result is for X other than F,
\* and the flag is the last write.  Only PC, V[X] and VF change.
C16_SubSetsNoBorrow ==
  [][(TickOf(8) /\ decode(E).n \in {5, 7}) =>
       LET d == decode(E)
           a == E.reg_v[d.x]
           b == E.reg_v[d.y]
           result == IF d.n = 5 THEN (a - b + 256) % 256 ELSE (b - a + 256) % 256
           flag   == IF d.n = 5 THEN (IF a >= b THEN 1 ELSE 0)
                                ELSE (IF b >= a THEN 1 ELSE 0)
       IN  /\ ~panicked'
           /\ logs' = logs
           /\ E' = [E EXCEPT !.pc = E.pc + 2,
                             !.reg_v = FlagResult(E.reg_v, d.x, result, flag)]]_vars

\* 8115 with V1 = 1: equal operands, the difference is 0 and there is no
\* borrow
C16_Witness ==
  /\ is_some(emulator)
  /\ last.msg = "Tick"
  /\ last.first = 129
  /\ last.nn = 21
  /\ last.reg_v[1] = 1
  /\ E.reg_v[1] = 0
  /\ E.reg_v[15] = 1

\* C17: FX55 and FX65 are a lossless round trip.  With I + X <= 4095, FX55
\* copies V[0..=X] into memory[I..=I+X] and changes no register, not I and no
\* other memory byte; an FX65 with the same X, executed while I and the bytes
\* stored are still those the FX55 left (the V registers may have been
\* overwritten), gives V[0..=X] the values they had at the FX55 and leaves
\* V[X+1..F], I and the memory unchanged.
C17_StoreLoadRoundTrip ==
  [][(TickOf(15) /\ decode(E).nn \in {85, 101} /\ E.reg_i + decode(E).x <= MemSize - 1) =>
       LET d == decode(E)
           s == last.saved
       IN  /\ ~panicked'
           /\ logs' = logs
           /\ d.nn = 85 =>
                E' = [E EXCEPT !.pc = E.pc + 2,
                               !.memory = [a \in 0..(MemSize - 1) |->
                                             IF a \in E.reg_i..(E.reg_i + d.x)
                                             THEN E.reg_v[a - E.reg_i]
                                             ELSE E.memory[a]]]
           /\ (d.nn = 101 /\ s.x = d.x /\ s.i = E.reg_i) =>
                E' = [E EXCEPT !.pc = E.pc + 2,
                               !.reg_v = [k \in 0..15 |->
                                            IF k <= d.x THEN s.v[k] ELSE E.reg_v[k]]]]_vars

\* FF65 has restored V0, V7 and VF, overwritten since the FF55
C17_Witness ==
  /\ is_some(emulator)
  /\ last.msg = "Tick"
  /\ last.first = 255
  /\ last.nn = 101
  /\ last.saved.x = 15
  /\ last.reg_v[0] = 0 /\ last.reg_v[7] = 0 /\ last.reg_v[15] = 0
  /\ E.reg_v = [k \in 0..15 |-> 16 * k + 1]

\* C18: the host steps the emulator only once a ROM is loaded: a Tick is
\* never processed in a state without an emulator (its unwrap never fails),
\* the tick subscription is installed exactly in the states that have an
\* emulator, and no message takes an emulator away once one is loaded.
C18_TicksOnlyWithEmulator ==
  /\ [](subscription(emulator) <=> is_some(emulator))
  /\ [][/\ (last'.msg = "Tick" => is_some(emulator))
        /\ (is_some(emulator) => is_some(emulator'))]_vars

\* a Tick processed after a file was refused while an emulator was loaded
C18_Witness ==
  /\ is_some(emulator)
  /\ ~panicked
  /\ last.msg = "Tick"
  /\ \E k \in DOMAIN logs, filename \in Filenames : logs[k] = LogTooBig(filename)

\* the instruction fetched is 00E0
IsClear(d) == d.opcat = 0 /\ d.nnn = 224

\* C19: among the instructions only 00E0 and DXYN write the framebuffer:
\* every other step, a failed fetch included, leaves all 32 rows as they
\* were; 00E0 sets every row to zero and, PC apart, changes nothing else.
C19_OnlyClearAndDrawWriteScreen ==
  [][Tick =>
       /\ ~(fetch_ok(E) /\ (IsClear(decode(E)) \/ decode(E).opcat = 13)) =>
            E'.screen = E.screen
       /\ (fetch_ok(E) /\ IsClear(decode(E))) =>
            /\ ~panicked'
            /\ logs' = logs
            /\ E' = [E EXCEPT !.pc = E.pc + 2,
                              !.screen = [r \in 0..(Rows - 1) |-> {}]]]_vars

\* 00E0 has cleared a framebuffer with lit pixels
C19_Witness ==
  /\ is_some(emulator)
  /\ last.msg = "Tick"
  /\ last.first = 0
  /\ last.nn = 224
  /\ \E r \in 1..(Rows - 1) : last.screen[r] # {}
  /\ E.screen = Screen_default
  /\ E.reg_v = last.reg_v

\* C20: in every state of an emulator PC is at most 4098 (a skip fetched at
\* 4094), I is at most 0x0FFF and every entry of the call stack is at most
\* 4096 (a call fetched at 4094); so PC + 2 fits in 16 bits and I + 15 is at
\* most 4110.
C20_AddressesStayInRange ==
  is_some(emulator) =>
    /\ E.pc <= MemSize + 2
    /\ E.pc + 2 < U16
    /\ E.reg_i <= MemSize - 1
    /\ E.reg_i + 15 <= 4110
    /\ \A k \in DOMAIN E.stack : E.stack[k] <= MemSize

\* the skip at 4094 has left PC = 4098
C20_Witness ==
  /\ is_some(emulator)
  /\ last.msg = "Tick"
  /\ last.at = MemSize - 2
  /\ E.pc = MemSize + 2
====
